---- MODULE Spec2Model ----
(***************************************************************************)
(* Warehouse Mapper (streamlit_app.py): the CSV normalizer read_latlon_csv, *)
(* the palette generator distinct_palette_rgba and the module-level script *)
(* that colours the rows and derives the map's initial view state.         *)
(*                                                                         *)
(* Text is a sequence of one-character strings, so that numeric coercion   *)
(* is a parse.  A float is a record [kind, num, den]: a finite rational    *)
(* num/den in lowest terms, an infinity (num is its sign) or NaN.  The     *)
(* arithmetic is exact; the palette it gives is the one the double          *)
(* arithmetic of the program gives for every n the specifications draw.     *)
(***************************************************************************)
EXTENDS Integers, Sequences, FiniteSets, TLC

VARIABLES uploaded, pc, df, err, palette, view_state, n, alpha, s, rgba

vars == <<uploaded, pc, df, err, palette, view_state, n, alpha, s, rgba>>

\* ------------------------------------------------------------------ bounds

MaxRows == 2
MaxCols == 2
MaxN == 24
ManyN == 997

\* --------------------------------------------------------------- rationals

Abs(x) == IF x < 0 THEN -x ELSE x

RECURSIVE GCD(_, _)
GCD(a, b) == IF b = 0 THEN a ELSE GCD(b, a % b)

Rat(num, den) ==
    LET g == GCD(Abs(num), Abs(den))
        sg == IF den < 0 THEN -1 ELSE 1
    IN [kind |-> "fin", num |-> sg * (num \div g), den |-> sg * (den \div g)]

Fin(i) == [kind |-> "fin", num |-> i, den |-> 1]
Inf(sign) == [kind |-> "inf", num |-> sign, den |-> 1]
NaN == [kind |-> "nan", num |-> 0, den |-> 1]

RAdd(a, b) == Rat(a.num * b.den + b.num * a.den, a.den * b.den)
RSub(a, b) == Rat(a.num * b.den - b.num * a.den, a.den * b.den)
RMul(a, b) == Rat(a.num * b.num, a.den * b.den)
RLess(a, b) == a.num * b.den < b.num * a.den

\* rounding to the nearest integer instead of truncating
TruncRounded(a) == (2 * a.num + a.den) \div (2 * a.den)

\* int(x) of a float x >= 0: truncation
Trunc(a) == a.num \div a.den

\* -------------------------------------------------------------------- text

DigitChars == <<"0", "1", "2", "3", "4", "5", "6", "7", "8", "9">>

IsDigit(c) == \E i \in 1..10 : DigitChars[i] = c

DigitVal(c) == (CHOOSE i \in 1..10 : DigitChars[i] = c) - 1

RECURSIVE DigitsValue(_)
DigitsValue(t) ==
    IF t = <<>> THEN 0
    ELSE 10 * DigitsValue(SubSeq(t, 1, Len(t) - 1)) + DigitVal(t[Len(t)])

IsDigits(t) == Len(t) > 0 /\ \A i \in 1..Len(t) : IsDigit(t[i])

EmptyCell == <<>>
InfText == <<"i", "n", "f">>

LatLabel == <<"l", "a", "t", "i", "t", "u", "d", "e">>
LonLabel == <<"l", "o", "n", "g", "i", "t", "u", "d", "e">>
FillLabel == <<"f", "i", "l", "l", "_", "r", "g", "b", "a">>
ColorLabel == <<"c", "o", "l", "o", "r">>

\* the integer column labels 0, 1, 2, ... of a headerless parse
PosLabel(i) == <<DigitChars[i + 1]>>

\* ------------------------------------------------------------------ pandas

Max(a, b) == IF a > b THEN a ELSE b

Pad(row, width) == [i \in 1..width |-> IF i <= Len(row) THEN row[i] ELSE EmptyCell]

Failed(exc) == [status |-> exc, columns |-> <<>>, rows |-> <<>>]

\* pd.read_csv(f) from line offset pos: blank lines are skipped; header=None
\* labels the columns 0..w-1 with w the first line's field count; a header line
\* labels them with its fields, and fields a first data line has beyond it are
\* the index.  A later line with more fields than expected is a ParserError;
\* one with fewer is padded with missing cells.
read_csv(content, pos, header) ==
    LET rest == SubSeq(content, pos + 1, Len(content))
        lines == SelectSeq(rest, LAMBDA r : r # <<EmptyCell>>)
    IN  IF lines = <<>> THEN Failed("EmptyDataError")
        ELSE
          LET data == IF header THEN Tail(lines) ELSE lines
              named == IF header THEN Len(lines[1]) ELSE 0
              width == IF data = <<>> THEN named
                       ELSE IF header THEN Max(named, Len(data[1]))
                       ELSE Len(data[1])
              lead == IF header THEN width - named ELSE 0
          IN  IF \E i \in 1..Len(data) : Len(data[i]) > width
              THEN Failed("ParserError")
              ELSE [status |-> "ok",
                    columns |-> IF header THEN lines[1]
                                ELSE [i \in 1..width |-> PosLabel(i - 1)],
                    rows |-> [i \in 1..Len(data) |->
                                SubSeq(Pad(data[i], width), lead + 1, width)]]

\* pd.to_numeric(x, errors="coerce") of one cell
to_numeric(cell) ==
    IF IsDigits(cell) THEN Fin(DigitsValue(cell))
    ELSE IF Len(cell) > 1 /\ cell[1] = "-" /\ IsDigits(Tail(cell))
         THEN Fin(-DigitsValue(Tail(cell)))
    ELSE IF Len(cell) > 1 /\ cell[1] = "+" /\ IsDigits(Tail(cell))
         THEN Fin(DigitsValue(Tail(cell)))
    ELSE IF cell = InfText \/ cell = <<"+">> \o InfText THEN Inf(1)
    ELSE IF cell = <<"-">> \o InfText THEN Inf(-1)
    ELSE NaN

ColIndex(t, label) ==
    CHOOSE i \in 1..Len(t.columns) :
        /\ t.columns[i] = label
        /\ \A j \in 1..(i - 1) : t.columns[j] # label

\* df.rename(columns={first: "latitude", second: "longitude"})
Rename(t) ==
    [t EXCEPT !.columns =
        [i \in 1..Len(t.columns) |->
            IF t.columns[i] = t.columns[1] THEN LatLabel
            ELSE IF t.columns[i] = t.columns[2] THEN LonLabel
            ELSE t.columns[i]]]

\* df[label] = pd.to_numeric(df[label], errors="coerce")
Coerce(t, label) ==
    LET k == ColIndex(t, label)
    IN  [t EXCEPT !.rows =
            [i \in 1..Len(t.rows) |-> [t.rows[i] EXCEPT ![k] = to_numeric(@)]]]

\* dropna(how="all"): a row goes only when every coordinate is missing
DropNaAll(t, subset) ==
    [t EXCEPT !.rows =
        SelectSeq(t.rows,
                  LAMBDA r : \E l \in subset : r[ColIndex(t, l)].kind # "nan")]

\* df.dropna(subset=[...]).reset_index(drop=True)
DropNa(t, subset) ==
    [t EXCEPT !.rows =
        SelectSeq(t.rows,
                  LAMBDA r : \A l \in subset : r[ColIndex(t, l)].kind # "nan")]

\* df[[...]]
Select(t, labels) ==
    [status |-> t.status,
     columns |-> labels,
     rows |-> [i \in 1..Len(t.rows) |->
                 [j \in 1..Len(labels) |-> t.rows[i][ColIndex(t, labels[j])]]]]

\* -------------------------------------------------------- read_latlon_csv

Normalize(t) ==
    Select(DropNa(Coerce(Coerce(Rename(t), LatLabel), LonLabel),
                  {LatLabel, LonLabel}),
           <<LatLabel, LonLabel>>)

Raise(exc) == [raised |-> exc, value |-> Failed(exc)]
Return(t) == [raised |-> "none", value |-> t]

\* the column checks asking for three columns instead of two
read_latlon_csv_three(f) ==
    LET try == read_csv(f.content, f.pos, FALSE)
        first == IF try.status = "ok" THEN try
                 ELSE read_csv(f.content, 0, FALSE)
    IN  IF first.status # "ok" THEN Raise(first.status)
        ELSE IF Len(first.columns) < 3
        THEN LET second == read_csv(f.content, 0, TRUE)
             IN  IF second.status # "ok" THEN Raise(second.status)
                 ELSE IF Len(second.columns) < 3 THEN Raise("ValueError")
                 ELSE Return(Normalize(second))
        ELSE Return(Normalize(first))

read_latlon_csv(f) ==
    LET try == read_csv(f.content, f.pos, FALSE)
        first == IF try.status = "ok" THEN try
                 ELSE read_csv(f.content, 0, FALSE)
    IN  IF first.status # "ok" THEN Raise(first.status)
        ELSE IF Len(first.columns) < 2
        THEN LET second == read_csv(f.content, 0, TRUE)
             IN  IF second.status # "ok" THEN Raise(second.status)
                 ELSE IF Len(second.columns) < 2 THEN Raise("ValueError")
                 ELSE Return(Normalize(second))
        ELSE Return(Normalize(first))

\* -------------------------------------------------- distinct_palette_rgba

Saturation == Rat(65, 100)
Lightness == Rat(50, 100)

hue2rgb(p, q, t0) ==
    LET t1 == IF RLess(t0, Fin(0)) THEN RAdd(t0, Fin(1)) ELSE t0
        t == IF RLess(Fin(1), t1) THEN RSub(t1, Fin(1)) ELSE t1
    IN  IF RLess(t, Rat(1, 6))
        THEN RAdd(p, RMul(RMul(RSub(q, p), Fin(6)), t))
        ELSE IF RLess(t, Rat(1, 2)) THEN q
        ELSE IF RLess(t, Rat(2, 3))
        THEN RAdd(p, RMul(RMul(RSub(q, p), RSub(Rat(2, 3), t)), Fin(6)))
        ELSE p

hsl_to_rgb(h, sat, l) ==
    LET q == IF RLess(l, Rat(1, 2)) THEN RMul(l, RAdd(Fin(1), sat))
             ELSE RSub(RAdd(l, sat), RMul(l, sat))
        p == RSub(RMul(Fin(2), l), q)
        r == IF sat = Fin(0) THEN l ELSE hue2rgb(p, q, RAdd(h, Rat(1, 3)))
        g == IF sat = Fin(0) THEN l ELSE hue2rgb(p, q, h)
        b == IF sat = Fin(0) THEN l ELSE hue2rgb(p, q, RSub(h, Rat(1, 3)))
    IN  <<Trunc(RMul(r, Fin(255))), Trunc(RMul(g, Fin(255))),
          Trunc(RMul(b, Fin(255)))>>

\* x % 1.0 of a float x >= 0
Mod1(x) == RSub(x, Fin(x.num \div x.den))

distinct_palette_rgba(count, a) ==
    [k \in 1..Max(count, 1) |->
        hsl_to_rgb(Mod1(Rat(k - 1, Max(count, 1))), Saturation, Lightness)
            \o <<a>>]

\* --------------------------------------------------- module-level script

FillAlpha == 220

EmptyFrame == Failed("none")

NoView == [latitude |-> NaN, longitude |-> NaN, zoom |-> 0]
DefaultView == [latitude |-> Rat(395, 10), longitude |-> Rat(-9835, 100), zoom |-> 3]

\* df[label] = values: a frame with no rows takes the values' index, its
\* other columns filled with NaN; otherwise the lengths must match.
SetColumn(t, label, values) ==
    IF Len(t.rows) = 0 /\ Len(values) > 0
    THEN [status |-> "ok",
          columns |-> Append(t.columns, label),
          rows |-> [i \in 1..Len(values) |->
                      [j \in 1..(Len(t.columns) + 1) |->
                          IF j <= Len(t.columns) THEN NaN ELSE values[i]]]]
    ELSE IF Len(values) # Len(t.rows) THEN Failed("ValueError")
    ELSE [status |-> "ok",
          columns |-> Append(t.columns, label),
          rows |-> [i \in 1..Len(t.rows) |-> Append(t.rows[i], values[i])]]

Column(t, label) == [i \in 1..Len(t.rows) |-> t.rows[i][ColIndex(t, label)]]

RECURSIVE SumNum(_)
SumNum(vals) ==
    IF vals = <<>> THEN Fin(0) ELSE RAdd(vals[1], SumNum(Tail(vals)))

\* Series.mean(): NaN is skipped; an infinity absorbs, opposite ones cancel to NaN
Mean(col) ==
    LET vals == SelectSeq(col, LAMBDA v : v.kind # "nan")
        fins == SelectSeq(vals, LAMBDA v : v.kind = "fin")
        pos == \E i \in 1..Len(vals) : vals[i] = Inf(1)
        neg == \E i \in 1..Len(vals) : vals[i] = Inf(-1)
    IN  IF vals = <<>> \/ (pos /\ neg) THEN NaN
        ELSE IF pos THEN Inf(1)
        ELSE IF neg THEN Inf(-1)
        ELSE RMul(SumNum(fins), Rat(1, Len(fins)))

ViewOf(t) ==
    IF Len(t.rows) > 0
    THEN [latitude |-> Mean(Column(t, LatLabel)),
          longitude |-> Mean(Column(t, LonLabel)),
          zoom |-> IF Len(t.rows) > 1 THEN 4 ELSE 8]
    ELSE DefaultView

\* ----------------------------------------------------------------- inputs

Cells == {<<"7">>, <<"-", "3">>, <<"l", "a", "t">>, InfText}
ExtraCells == {<<"#", "f", "0", "0">>}

Rows ==
    UNION {{r \in [1..w -> Cells \cup ExtraCells] :
               \A i \in 1..w : IF i <= 2 THEN r[i] \in Cells
                               ELSE r[i] \in ExtraCells} : w \in 1..MaxCols}

Files == UNION {[1..k -> Rows] : k \in 0..MaxRows}

Alphas == {0, 200, FillAlpha, 255}

\* ---------------------------------------------------------------- actions

Init ==
    /\ uploaded \in [present : {TRUE}, content : Files, pos : {0}]
                    \cup {[present |-> FALSE, content |-> <<>>, pos |-> 0]}
    /\ pc = "load"
    /\ df = EmptyFrame
    /\ err = "none"
    /\ palette = <<>>
    /\ view_state = NoView
    /\ n = 0
    /\ alpha = 0
    /\ s = [is_str |-> FALSE, text |-> <<>>]
    /\ rgba = <<>>

\* lines 90-92: no file yet
NoUpload ==
    /\ pc = "load"
    /\ ~uploaded.present
    /\ pc' = "stopped"
    /\ UNCHANGED <<uploaded, df, err, palette, view_state, n, alpha, s, rgba>>

\* lines 94-98: df = read_latlon_csv(uploaded), or st.error and st.stop
Load ==
    /\ pc = "load"
    /\ uploaded.present
    /\ LET res == read_latlon_csv(uploaded)
       IN  /\ err' = res.raised
           /\ df' = res.value
           /\ pc' = IF res.raised = "none" THEN "loaded" ELSE "stopped"
    /\ uploaded' = [uploaded EXCEPT !.pos = Len(uploaded.content)]
    /\ UNCHANGED <<palette, view_state, n, alpha, s, rgba>>

\* lines 100-103
AssignColors ==
    /\ pc = "loaded"
    /\ LET pal == distinct_palette_rgba(Len(df.rows), FillAlpha)
           out == SetColumn(df, FillLabel, pal)
       IN  /\ palette' = pal
           /\ df' = out
           /\ err' = IF out.status = "ok" THEN "none" ELSE out.status
           /\ pc' = IF out.status = "ok" THEN "colored" ELSE "crashed"
    /\ UNCHANGED <<uploaded, view_state, n, alpha, s, rgba>>

\* lines 131-148
Render ==
    /\ pc = "colored"
    /\ view_state' = ViewOf(df)
    /\ pc' = "rendered"
    /\ UNCHANGED <<uploaded, df, err, palette, n, alpha, s, rgba>>

\* a widget interaction runs the script again on the same upload, whose read
\* position is where the last run left it or has been rewound
Rerun ==
    /\ pc \in {"rendered", "stopped", "crashed"}
    /\ uploaded.present
    /\ \E p \in {0, uploaded.pos} : uploaded' = [uploaded EXCEPT !.pos = p]
    /\ pc' = "load"
    /\ df' = EmptyFrame
    /\ err' = "none"
    /\ palette' = <<>>
    /\ view_state' = NoView
    /\ UNCHANGED <<n, alpha, s, rgba>>

Next == NoUpload \/ Load \/ AssignColors \/ Render \/ Rerun

Spec == Init /\ [][Next]_vars

\* ---------------------------------------------------- parse_hex_color

ShortLen == 4
LongLen == 7
HexAlpha == 200

HexChars == <<"0", "1", "2", "3", "4", "5", "6", "7", "8", "9",
              "a", "b", "c", "d", "e", "f">>

IsHex(c) == \E i \in 1..16 : HexChars[i] = c

HexVal(c) == (CHOOSE i \in 1..16 : HexChars[i] = c) - 1

Fallback == <<0, 122, 204, HexAlpha>>

None == [is_str |-> FALSE, text |-> <<>>]
Str(text) == [is_str |-> TRUE, text |-> text]

\* no expansion of the three-digit shorthand
parse_hex_color_long_only(x) ==
    IF ~x.is_str \/ x.text = <<>> THEN Fallback
    ELSE IF x.text[1] # "#" \/ Len(x.text) # LongLen THEN Fallback
    ELSE LET full == Tail(x.text)
         IN  IF \E i \in 1..Len(full) : ~IsHex(full[i]) THEN Fallback
             ELSE <<16 * HexVal(full[1]) + HexVal(full[2]),
                    16 * HexVal(full[3]) + HexVal(full[4]),
                    16 * HexVal(full[5]) + HexVal(full[6]),
                    HexAlpha>>

parse_hex_color(x) ==
    IF ~x.is_str \/ x.text = <<>> THEN Fallback
    ELSE IF x.text[1] # "#" \/ Len(x.text) \notin {ShortLen, LongLen} THEN Fallback
    ELSE LET body == Tail(x.text)
             full == IF Len(body) = ShortLen - 1
                     THEN [i \in 1..(2 * Len(body)) |-> body[(i + 1) \div 2]]
                     ELSE body
         IN  IF \E i \in 1..Len(full) : ~IsHex(full[i]) THEN Fallback
             ELSE <<16 * HexVal(full[1]) + HexVal(full[2]),
                    16 * HexVal(full[3]) + HexVal(full[4]),
                    16 * HexVal(full[5]) + HexVal(full[6]),
                    HexAlpha>>

\* ------------------------------------------ the pure functions, called alone

NoFile == [present |-> FALSE, content |-> <<>>, pos |-> 0]

InitPalette ==
    /\ n \in (0..MaxN) \cup {ManyN}
    /\ alpha \in Alphas
    /\ pc = "call"
    /\ palette = <<>>
    /\ uploaded = NoFile
    /\ df = EmptyFrame
    /\ err = "none"
    /\ view_state = NoView
    /\ s = None
    /\ rgba = <<>>

Generate ==
    /\ pc = "call"
    /\ palette' = distinct_palette_rgba(n, alpha)
    /\ pc' = "returned"
    /\ UNCHANGED <<uploaded, df, err, view_state, n, alpha, s, rgba>>

SpecPalette == InitPalette /\ [][Generate]_vars

HexAlphabet == {"#", "f", "0", "g"}
HexBodyAlphabet == {"f", "0", "g"}

HexInputs ==
    {None}
    \cup UNION {{Str(x) : x \in [1..k -> HexAlphabet]} : k \in 0..ShortLen}
    \cup {Str(<<"#">> \o x) : x \in [1..(LongLen - 1) -> HexBodyAlphabet]}
    \cup {Str(<<"f">> \o x) : x \in [1..(LongLen - 1) -> {"f"}]}

InitHex ==
    /\ s \in HexInputs
    /\ rgba = <<>>
    /\ pc = "call"
    /\ n = 0
    /\ alpha = 0
    /\ palette = <<>>
    /\ uploaded = NoFile
    /\ df = EmptyFrame
    /\ err = "none"
    /\ view_state = NoView

Parse ==
    /\ pc = "call"
    /\ rgba' = parse_hex_color(s)
    /\ pc' = "returned"
    /\ UNCHANGED <<uploaded, df, err, palette, view_state, n, alpha, s>>

SpecHex == InitHex /\ [][Parse]_vars

\* ----------------------------------------------------------------- claims

\* the headerless parse of the whole upload
Parsed == read_csv(uploaded.content, 0, FALSE)

\* the header-assumed parse of the whole upload
Reparsed == read_csv(uploaded.content, 0, TRUE)

TwoColumns == uploaded.present /\ Parsed.status = "ok" /\ Len(Parsed.columns) >= 2

Coercible(cell) == to_numeric(cell).kind # "nan"

\* the indices of the rows whose first two cells both coerce to a number
Survivors(rows) ==
    {i \in 1..Len(rows) : Coercible(rows[i][1]) /\ Coercible(rows[i][2])}

Rank(K, i) == Cardinality({j \in K : j <= i})

\* C1: of a headerless table with at least two columns the normalizer returns
\* exactly the (column 0, column 1) numbers of the rows whose two coordinates
\* both coerce, in their original order; never more rows than the input has,
\* and as many iff no row has an unparseable coordinate.
C1_SurvivorsInOrder ==
    (pc = "loaded" /\ TwoColumns) =>
        LET rows == Parsed.rows
            K == Survivors(rows)
        IN  /\ df.columns = <<LatLabel, LonLabel>>
            /\ Len(df.rows) = Cardinality(K)
            /\ \A i \in K :
                 df.rows[Rank(K, i)]
                     = <<to_numeric(rows[i][1]), to_numeric(rows[i][2])>>
            /\ Len(df.rows) <= Len(rows)
            /\ (Len(df.rows) = Len(rows)) <=> (K = 1..Len(rows))

\* a first row of header text is dropped as data, the numeric row after it kept
C1_Witness ==
    /\ pc = "loaded"
    /\ TwoColumns
    /\ Len(Parsed.rows) = 2
    /\ Parsed.rows[1] = <<<<"l", "a", "t">>, <<"l", "a", "t">>>>
    /\ df.rows = <<<<Fin(7), Fin(-3)>>>>

\* C2: the normalizer parses headerless first and header-assumed only when
\* that gave fewer than two columns; it fails with the minimum-column error
\* iff both parses gave fewer than two columns, and when a parse it made gave
\* at least two it returns the table of that parse's first two columns.
C2_MinColumnError ==
    (uploaded.present /\ pc # "load") =>
        LET one == Parsed.status = "ok" /\ Len(Parsed.columns) < 2
            both == one /\ Reparsed.status = "ok" /\ Len(Reparsed.columns) < 2
            used == IF TwoColumns THEN Parsed ELSE Reparsed
        IN  /\ (err = "ValueError" /\ pc = "stopped") <=> both
            /\ (TwoColumns \/ (one /\ Reparsed.status = "ok" /\ ~both)) =>
                 /\ pc # "stopped"
                 /\ pc = "loaded" =>
                      /\ err = "none"
                      /\ df.columns = <<LatLabel, LonLabel>>
                      /\ \A k \in 1..Len(df.rows) :
                           \E i \in 1..Len(used.rows) :
                             df.rows[k] = <<to_numeric(used.rows[i][1]),
                                            to_numeric(used.rows[i][2])>>

\* a single-column upload is refused with the minimum-column error
C2_Witness ==
    /\ pc = "stopped"
    /\ err = "ValueError"
    /\ Parsed.status = "ok"
    /\ Len(Parsed.columns) = 1
    /\ Len(Parsed.rows) = 2

\* C3: every latitude and longitude of a returned table is a finite number.
C3_AllFinite ==
    pc = "loaded" =>
        \A k \in 1..Len(df.rows) :
            \A j \in 1..Len(df.rows[k]) : df.rows[k][j].kind = "fin"

\* C4: the palette generator returns exactly n entries, for n = 0 too.
C4_ExactlyN == pc = "returned" => Len(palette) = n

\* C5: for n >= 2 the RGB triplets of the palette are pairwise distinct.
C5_PairwiseDistinct ==
    (pc = "returned" /\ n >= 2) =>
        \A i, j \in 1..Len(palette) :
            i # j => SubSeq(palette[i], 1, 3) # SubSeq(palette[j], 1, 3)

\* C6: an upload with at least two columns never stops the run, and the table
\* handed to the renderer has one coloured row per surviving row.
C6_OnlyColumnsFail ==
    TwoColumns =>
        /\ pc \notin {"stopped", "crashed"}
        /\ pc \in {"colored", "rendered"} =>
             /\ Len(df.rows) = Cardinality(Survivors(Parsed.rows))
             /\ Len(palette) = Len(df.rows)

\* the table read_latlon_csv returns for the upload
Normalized == read_latlon_csv([uploaded EXCEPT !.pos = 0]).value

\* C7: the view state is the default centre at zoom 3 for a normalized table
\* of no rows, the row itself at zoom 8 for one row, and the arithmetic mean
\* of the latitudes and of the longitudes at zoom 4 for more.
C7_ViewportPolicy ==
    (pc = "rendered" /\ TwoColumns) =>
        LET rows == Normalized.rows
            finite == \A k \in 1..Len(rows) :
                        rows[k][1].kind = "fin" /\ rows[k][2].kind = "fin"
            count == Fin(Len(rows))
        IN  /\ Len(rows) = 0 =>
                 view_state = [latitude |-> Rat(79, 2),
                               longitude |-> Rat(-1967, 20), zoom |-> 3]
            /\ Len(rows) = 1 =>
                 view_state = [latitude |-> rows[1][1],
                               longitude |-> rows[1][2], zoom |-> 8]
            /\ Len(rows) > 1 =>
                 /\ view_state.zoom = 4
                 /\ finite =>
                      /\ RMul(view_state.latitude, count)
                           = SumNum([k \in 1..Len(rows) |-> rows[k][1]])
                      /\ RMul(view_state.longitude, count)
                           = SumNum([k \in 1..Len(rows) |-> rows[k][2]])

\* C8: the normalizer's output carries a color column.
C8_ColorColumn ==
    pc = "loaded" => \E j \in 1..Len(df.columns) : df.columns[j] = ColorLabel

\* a valid hex colour text: '#' and three or six hex digits
ValidHex(x) ==
    /\ x.is_str
    /\ Len(x.text) \in {4, 7}
    /\ x.text[1] = "#"
    /\ \A i \in 2..Len(x.text) : IsHex(x.text[i])

Byte(hi, lo) == 16 * HexVal(hi) + HexVal(lo)

Doubled(x) ==
    Str(<<"#", x.text[2], x.text[2], x.text[3], x.text[3], x.text[4], x.text[4]>>)

\* C9: parse_hex_color always returns a colour: the fallback (0, 122, 204, 200)
\* for anything but '#RGB' or '#RRGGBB', the parsed channels with alpha 200
\* for '#RRGGBB', and for '#RGB' what it returns for the doubled digits.
C9_HexOrFallback ==
    pc = "returned" =>
        /\ Len(rgba) = 4
        /\ ~ValidHex(s) => rgba = <<0, 122, 204, 200>>
        /\ (ValidHex(s) /\ Len(s.text) = 7) =>
             rgba = <<Byte(s.text[2], s.text[3]), Byte(s.text[4], s.text[5]),
                      Byte(s.text[6], s.text[7]), 200>>
        /\ (ValidHex(s) /\ Len(s.text) = 4) =>
             /\ rgba = parse_hex_color(Doubled(s))
             /\ rgba = <<Byte(s.text[2], s.text[2]), Byte(s.text[3], s.text[3]),
                         Byte(s.text[4], s.text[4]), 200>>

\* '#f0f' parsed as '#ff00ff'
C9_Witness ==
    /\ pc = "returned"
    /\ s = Str(<<"#", "f", "0", "f">>)
    /\ rgba = <<255, 0, 255, 200>>

\* the textbook conversion: chroma c, second component x and offset m, by the
\* sextant of the hue
FloorOf(a) == a.num \div a.den

RAbs(a) == Rat(Abs(a.num), a.den)

StandardRgb(h, sat, l) ==
    LET c == RMul(RSub(Fin(1), RAbs(RSub(RMul(Fin(2), l), Fin(1)))), sat)
        h6 == RMul(h, Fin(6))
        sextant == FloorOf(h6)
        mod2 == RSub(h6, Fin(2 * (sextant \div 2)))
        x == RMul(c, RSub(Fin(1), RAbs(RSub(mod2, Fin(1)))))
        m == RSub(l, RMul(c, Rat(1, 2)))
        z == Fin(0)
        rgb == CASE sextant = 0 -> <<c, x, z>>
                 [] sextant = 1 -> <<x, c, z>>
                 [] sextant = 2 -> <<z, c, x>>
                 [] sextant = 3 -> <<z, x, c>>
                 [] sextant = 4 -> <<x, z, c>>
                 [] OTHER -> <<c, z, x>>
    IN  [j \in 1..3 |-> FloorOf(RMul(RAdd(rgb[j], m), Fin(255)))]

====
